---------------------------- MODULE Spec2Model ----------------------------
(***************************************************************************)
(* Model of the Real-Time Job Explorer page (src/app.py).                  *)
(*                                                                         *)
(* One run of the page script is one action: Search (the button was        *)
(* clicked) or Rerun (any other rerun of the script).  The state is the    *)
(* session variable job_data, the fallback file fallback_jobs.csv, the     *)
(* widget values, and a record of what the last run did (the value         *)
(* returned by fetch_jobs, the messages shown, the charts drawn, the       *)
(* exception that ended the run, the library calls made).                  *)
(*                                                                         *)
(* A text is a sequence of one-character strings, so that strip, title,    *)
(* and the substring match are computed rather than assumed.               *)
(***************************************************************************)
EXTENDS Naturals, Sequences, FiniteSets, TLC

(* The longest list of jobs one API response carries in the model. *)
MaxJobs == 2

---------------------------------------------------------------------------
(* Texts: str.strip, str.title, str.lower, as Python computes them. *)

Lowers == <<"a","b","c","d","e","f","g","h","i","j","k","l","m",
            "n","o","p","q","r","s","t","u","v","w","x","y","z">>
Uppers == <<"A","B","C","D","E","F","G","H","I","J","K","L","M",
            "N","O","P","Q","R","S","T","U","V","W","X","Y","Z">>

LowerSet == {Lowers[i] : i \in 1..Len(Lowers)}
UpperSet == {Uppers[i] : i \in 1..Len(Uppers)}
UpperMap == [c \in LowerSet |-> Uppers[CHOOSE i \in 1..Len(Lowers) : Lowers[i] = c]]
LowerMap == [c \in UpperSet |-> Lowers[CHOOSE i \in 1..Len(Uppers) : Uppers[i] = c]]

IsCased(c) == c \in LowerSet \/ c \in UpperSet
Upper(c) == IF c \in LowerSet THEN UpperMap[c] ELSE c
Lower(c) == IF c \in UpperSet THEN LowerMap[c] ELSE c

LowerStr(s) == [i \in 1..Len(s) |-> Lower(s[i])]

(* str.title: a cased character is upper-cased when the character before   *)
(* it is not cased, lower-cased otherwise.                                  *)
Title(s) == [i \in 1..Len(s) |->
               IF i > 1 /\ IsCased(s[i-1]) THEN Lower(s[i]) ELSE Upper(s[i])]

IsSpace(c) == c = " "

RECURSIVE StripLeft(_)
StripLeft(s) == IF s = <<>> \/ ~IsSpace(s[1]) THEN s ELSE StripLeft(Tail(s))

RECURSIVE StripRight(_)
StripRight(s) ==
  IF s = <<>> \/ ~IsSpace(s[Len(s)]) THEN s ELSE StripRight(SubSeq(s, 1, Len(s) - 1))

(* str.strip: leading and trailing whitespace removed. *)
Strip(s) == StripRight(StripLeft(s))

(* t occurs in s as a contiguous piece. *)
Occurs(t, s) ==
  \E i \in 0..(Len(s) - Len(t)) : \A j \in 1..Len(t) : s[i + j] = t[j]

(* The texts the program itself spells out. *)
NotSpecified == <<"N","o","t"," ","s","p","e","c","i","f","i","e","d">>
NoneText == <<"N","o","n","e">>
Hash == <<"#">>
All == <<"A","l","l">>

---------------------------------------------------------------------------
(* The job API's JSON: a key of a job object is absent, null or a text. *)

Absent == [k |-> "absent", v |-> <<>>]
Null == [k |-> "null", v |-> <<>>]
JStr(s) == [k |-> "str", v |-> s \o <<>>]
JDict == [k |-> "dict", v |-> <<>>]

(* Jobs an API response may carry. Job1 and Job2 differ in case and in     *)
(* surrounding blanks only, and their experience level is the text none;   *)
(* Job3 lacks keys, has a null and a date that does not parse; in Job4 the *)
(* key job_required_experience is null, and it comes alone.                *)
Job1 ==
  [job_title |-> JStr(<<"d","e","v"," ","(","j","r">>), employer_name |-> JStr(<<"a","c","m","e">>), job_city |-> JStr(<<"p","u","n","e">>),
   job_posted_at_datetime_utc |-> JStr(<<"2","0","2","5","-","0","1","-","0","2">>), job_industry |-> Absent,
   job_required_experience |-> JDict, experience_level |-> JStr(<<"n","o","n","e">>),
   job_employment_type |-> JStr(<<"F","u","l","l","-","t","i","m","e">>), job_apply_link |-> JStr(<<"u">>)]
Job2 ==
  [job_title |-> JStr(<<"D","e","v"," ","(","J","r"," ">>), employer_name |-> JStr(<<"A","c","m","e">>), job_city |-> JStr(<<" ","P","u","n","e">>),
   job_posted_at_datetime_utc |-> JStr(<<"2","0","2","5","-","0","1","-","0","2">>), job_industry |-> Absent,
   job_required_experience |-> JDict, experience_level |-> JStr(<<"N","o","n","e"," ">>),
   job_employment_type |-> JStr(<<"F","u","l","l","-","t","i","m","e">>), job_apply_link |-> JStr(<<"u">>)]
Job3 ==
  [job_title |-> JStr(<<"q","a">>), employer_name |-> Absent, job_city |-> Absent,
   job_posted_at_datetime_utc |-> JStr(<<"s","o","o","n">>), job_industry |-> JStr(<<"i","t">>),
   job_required_experience |-> JDict, experience_level |-> Absent,
   job_employment_type |-> Null, job_apply_link |-> Absent]
Job4 ==
  [job_title |-> JStr(<<"o","p","s">>), employer_name |-> JStr(<<"a","c","m","e">>), job_city |-> JStr(<<"p","u","n","e">>),
   job_posted_at_datetime_utc |-> Absent, job_industry |-> Absent,
   job_required_experience |-> Null, experience_level |-> Absent,
   job_employment_type |-> Absent, job_apply_link |-> Absent]
JobPool == {Job1, Job2, Job3}

JobLists == UNION {[1..n -> JobPool] : n \in 0..MaxJobs}

(* What the GET of one click meets: a response whose status check and      *)
(* JSON decoding pass, or an exception raised by requests.get, by          *)
(* raise_for_status or by response.json.                                   *)
Responses ==
  {[status |-> "ok", data |-> d] : d \in JobLists \cup {<<Job4>>}}
  \cup {[status |-> "error", data |-> <<>>]}
NoResponse == [status |-> "none", data |-> <<>>]

(* What the file system does to the CSV call of a run. *)
IoOutcomes == {"ok", "os_error"}

Widgets(t, l, i, e, j) ==
  [job_title |-> t, location |-> l, industry |-> i,
   experience_filter |-> e, job_type_filter |-> j]

India == <<"I","n","d","i","a">>
EntryLevel == <<"E","n","t","r","y"," ","l","e","v","e","l">>
FullTime == <<"F","u","l","l","-","t","i","m","e">>

(* The widget values as the page first shows them. *)
DefaultWidgets == Widgets(<<>>, India, <<>>, All, All)

(* The widget values a run may be made with. *)
WidgetValues ==
  {DefaultWidgets,
   Widgets(<<>>, <<>>, <<>>, All, All),
   Widgets(<<"d","e","v">>, <<"p","u","n","e">>, <<>>, All, All),
   Widgets(<<"(">>, <<>>, <<>>, All, All),
   Widgets(<<>>, <<>>, <<"i","t">>, EntryLevel, All),
   Widgets(<<>>, <<>>, <<>>, All, FullTime)}

(* The texts of the jobs, as they come and as they are once normalised. *)
PoolTexts ==
  {NotSpecified, NoneText}
  \cup {j[f].v : j \in JobPool \cup {Job4}, f \in DOMAIN Job1}
KnownTexts == PoolTexts \cup {Title(Strip(t)) \o <<>> : t \in PoolTexts}
TitleStrip == [t \in KnownTexts |-> Title(Strip(t)) \o <<>>]

---------------------------------------------------------------------------
(* Cells of a table: a text, a timestamp, or one of the missing values. *)

Str(s) == [k |-> "str", v |-> s \o <<>>]
Datetime(s) == [k |-> "datetime", v |-> s \o <<>>]
NoneCell == [k |-> "none", v |-> <<>>]
NaN == [k |-> "nan", v |-> <<>>]
NaT == [k |-> "nat", v |-> <<>>]

IsNA(c) == c.k \in {"none", "nan", "nat"}

(* Series.fillna("Not specified").astype(str).str.strip().str.title();    *)
(* the texts of KnownTexts are looked up in the table TitleStrip, which    *)
(* holds Title(Strip(t)) for each of them.                                 *)
Normalise(c) ==
  LET t == IF IsNA(c) THEN NotSpecified ELSE c.v
  IN Str(IF t \in KnownTexts THEN TitleStrip[t] ELSE Title(Strip(t)))

IsDigit(c) == c \in {"0","1","2","3","4","5","6","7","8","9"}

(* The date texts pd.to_datetime parses in the model: YYYY-MM-DD. *)
IsDateText(s) ==
  /\ Len(s) = 10
  /\ \A i \in {1,2,3,4,6,7,9,10} : IsDigit(s[i])
  /\ s[5] = "-" /\ s[8] = "-"

(* pd.to_datetime(errors="coerce"): what does not parse becomes NaT. *)
ToDatetime(c) ==
  IF c.k = "datetime" THEN c
  ELSE IF c.k = "str" /\ IsDateText(c.v) THEN Datetime(c.v)
  ELSE NaT

---------------------------------------------------------------------------
Columns == {"Job Title", "Company", "Location", "Posted", "Industry",
            "Experience", "Job Type", "Apply Link"}
TextColumns == {"Job Title", "Company", "Location", "Industry", "Experience", "Job Type"}
DedupColumns == {"Job Title", "Company", "Location", "Posted"}
ChartColumns == {"Location", "Job Title", "Company", "Job Type", "Experience"}

(* dict.get(key, default): the default only when the key is absent; a JSON *)
(* null is returned as None.                                                *)
Get(v, default) ==
  IF v.k = "absent" THEN Str(default)
  ELSE IF v.k = "null" THEN NoneCell
  ELSE Str(v.v)

(* The f-string of the apply link: None is formatted as the text None. *)
ApplyLink(v) ==
  LET href == Get(v, Hash)
  IN Str(<<"<a href='">> \o (IF href.k = "none" THEN NoneText ELSE href.v)
         \o <<"' target='_blank'>Apply Here</a>">>)

(* exp_info.get("experience_level", "Not specified"), exp_info being       *)
(* job.get("job_required_experience", {}).                                  *)
ExperienceOf(job) ==
  IF job.job_required_experience.k = "absent" THEN Str(NotSpecified)
  ELSE Get(job.experience_level, NotSpecified)

(* The dict of a job built without the defaults of dict.get: a key the job *)
(* lacks gives no key in the dict.                                         *)
BuildRecordNoDefault(job) ==
  LET has == {c \in Columns :
                \/ c = "Job Title" /\ job.job_title.k # "absent"
                \/ c = "Company" /\ job.employer_name.k # "absent"
                \/ c = "Location" /\ job.job_city.k # "absent"
                \/ c = "Posted" /\ job.job_posted_at_datetime_utc.k # "absent"
                \/ c = "Industry" /\ job.job_industry.k # "absent"
                \/ c = "Experience" /\ job.job_required_experience.k # "absent"
                                    /\ job.experience_level.k # "absent"
                \/ c = "Job Type" /\ job.job_employment_type.k # "absent"
                \/ c = "Apply Link"}
  IN [c \in has |->
        CASE c = "Job Title" -> Get(job.job_title, NotSpecified)
          [] c = "Company" -> Get(job.employer_name, NotSpecified)
          [] c = "Location" -> Get(job.job_city, NotSpecified)
          [] c = "Posted" -> Get(job.job_posted_at_datetime_utc, NotSpecified)
          [] c = "Industry" -> Get(job.job_industry, NotSpecified)
          [] c = "Experience" -> ExperienceOf(job)
          [] c = "Job Type" -> Get(job.job_employment_type, NotSpecified)
          [] c = "Apply Link" -> ApplyLink(job.job_apply_link)]

(* The dict fetch_jobs appends for one job of the response. *)
BuildRecord(job) ==
  [c \in Columns |->
     CASE c = "Job Title" -> Get(job.job_title, NotSpecified)
       [] c = "Company" -> Get(job.employer_name, NotSpecified)
       [] c = "Location" -> Get(job.job_city, NotSpecified)
       [] c = "Posted" -> Get(job.job_posted_at_datetime_utc, NotSpecified)
       [] c = "Industry" -> Get(job.job_industry, NotSpecified)
       [] c = "Experience" -> ExperienceOf(job)
       [] c = "Job Type" -> Get(job.job_employment_type, NotSpecified)
       [] c = "Apply Link" -> ApplyLink(job.job_apply_link)]

(* The text of the query parameter: f"{query} in {location}". *)
QueryText(query, loc) == query \o <<" ","i","n"," ">> \o loc

ErrorFetching == [level |-> "error", text |-> "Error fetching jobs"]

(* fetch_jobs with a retry: a failed request is sent a second time. *)
fetch_jobs_retry(query, loc, response) ==
  LET raised == \/ response.status # "ok"
                \/ \E i \in 1..Len(response.data) :
                      response.data[i].job_required_experience.k = "null"
      req == [url |-> "https://jsearch.p.rapidapi.com/search",
              query |-> QueryText(query, loc), page |-> "1", num_pages |-> "3"]
  IN IF raised
     THEN [none |-> TRUE, rows |-> <<>>, errors |-> <<ErrorFetching>>,
           requests |-> <<req, req>>]
     ELSE [none |-> FALSE,
           rows |-> [i \in 1..Len(response.data) |-> BuildRecord(response.data[i]) @@ <<>>]
                    \o <<>>,
           errors |-> <<>>, requests |-> <<req>>]

(* fetch_jobs: one GET; any exception of the request, of the status check, *)
(* of the JSON decoding or of the loop over the jobs (exp_info is None     *)
(* when job_required_experience is null) is reported once and None is      *)
(* returned.                                                               *)
fetch_jobs(query, loc, response) ==
  LET raised == \/ response.status # "ok"
                \/ \E i \in 1..Len(response.data) :
                      response.data[i].job_required_experience.k = "null"
      req == [url |-> "https://jsearch.p.rapidapi.com/search",
              query |-> QueryText(query, loc), page |-> "1", num_pages |-> "3"]
  IN IF raised
     THEN [none |-> TRUE, rows |-> <<>>, errors |-> <<ErrorFetching>>,
           requests |-> <<req>>]
     ELSE [none |-> FALSE,
           rows |-> [i \in 1..Len(response.data) |-> BuildRecord(response.data[i]) @@ <<>>]
                    \o <<>>,
           errors |-> <<>>, requests |-> <<req>>]

---------------------------------------------------------------------------
(* Tables. *)

NoneDF == [none |-> TRUE, columns |-> {}, rows |-> <<>>]
Frame(cols, rows) == [none |-> FALSE, columns |-> cols, rows |-> rows]

(* pd.DataFrame(list of dicts): the columns are the keys met, a key a      *)
(* dict lacks is NaN in its row.                                           *)
DataFrame(dicts) ==
  LET cols == UNION {DOMAIN dicts[i] : i \in 1..Len(dicts)}
  IN Frame(cols, [i \in 1..Len(dicts) |->
                    [c \in cols |-> IF c \in DOMAIN dicts[i] THEN dicts[i][c] ELSE NaN]])

RECURSIVE DedupFrom(_, _, _)
DedupFrom(rows, subset, i) ==
  IF i > Len(rows) THEN <<>>
  ELSE (IF \E j \in 1..(i-1) : \A c \in subset : rows[j][c] = rows[i][c]
        THEN <<>> ELSE <<rows[i]>>) \o DedupFrom(rows, subset, i + 1)

(* DataFrame.drop_duplicates(subset=...): the first of equal rows is kept. *)
drop_duplicates(df, subset) == Frame(df.columns, DedupFrom(df.rows, subset, 1))

(* for col in [...]: df[col] = df[col].fillna(...).astype(str).str.strip().str.title() *)
NormaliseColumns(df) ==
  Frame(df.columns,
        [i \in 1..Len(df.rows) |->
           [c \in df.columns |->
              IF c \in TextColumns THEN Normalise(df.rows[i][c]) ELSE df.rows[i][c]]])

(* The data cleaning of the live branch, after drop_duplicates. *)
CleanLive(df) ==
  LET n == NormaliseColumns(df)
  IN Frame(n.columns,
           [i \in 1..Len(n.rows) |->
              [c \in n.columns |->
                 IF c = "Posted" THEN ToDatetime(n.rows[i][c])
                 ELSE IF c = "Experience" /\ n.rows[i][c] = Str(NoneText)
                      THEN Str(NotSpecified)
                 ELSE n.rows[i][c]]])

---------------------------------------------------------------------------
(* The fallback file: a header and rows of texts. *)

NoFile == [exists |-> FALSE, columns |-> {}, rows |-> <<>>]

(* The text to_csv writes for a cell: a missing value is the empty text. *)
CsvText(c) == IF IsNA(c) THEN <<>> ELSE c.v

to_csv(df) ==
  [exists |-> TRUE, columns |-> df.columns,
   rows |-> [i \in 1..Len(df.rows) |-> [c \in df.columns |-> CsvText(df.rows[i][c])]]]

(* The texts read_csv takes for a missing value (those made of the model's *)
(* characters).                                                            *)
NaValues == {<<>>, <<"N","/","A">>, <<"N","A">>, <<"N","U","L","L">>, <<"N","a","N">>, <<"N","o","n","e">>, <<"n","/","a">>, <<"n","a","n">>, <<"n","u","l","l">>}

read_csv(f) ==
  Frame(f.columns,
        [i \in 1..Len(f.rows) |->
           [c \in f.columns |->
              IF f.rows[i][c] \in NaValues THEN NaN ELSE Str(f.rows[i][c])]])

---------------------------------------------------------------------------
(* Series.str.contains(pat, case=False, na=False): pat is a regular        *)
(* expression.  In the model's alphabet the only special characters are    *)
(* the parentheses: a pattern whose parentheses do not balance does not    *)
(* compile (re.error), and a group matches what it encloses.               *)

Count(s, ch, n) == Cardinality({i \in 1..n : s[i] = ch})

RegexCompiles(pat) ==
  /\ \A n \in 1..Len(pat) : Count(pat, ")", n) <= Count(pat, "(", n)
  /\ Count(pat, ")", Len(pat)) = Count(pat, "(", Len(pat))

IsParen(ch) == ch \in {"(", ")"}
NotParen(ch) == ~IsParen(ch)

StrContains(pat, c) ==
  /\ ~IsNA(c)
  /\ Occurs(LowerStr(SelectSeq(pat, NotParen)), LowerStr(c.v))

(* The filters the fallback branch applies: a text input when it is not  *)
(* empty, a selection when it is not All.                                  *)
FilterPatterns(w) ==
  {f \in {<<"Job Title", w.job_title>>, <<"Location", w.location>>,
          <<"Industry", w.industry>>} : f[2] # <<>>}
  \cup {f \in {<<"Experience", w.experience_filter>>,
               <<"Job Type", w.job_type_filter>>} : f[2] # All}

(* The rows that match every filter; raised when a pattern does not       *)
(* compile.                                                                *)
ApplyFilters(df, w) ==
  LET pats == FilterPatterns(w)
      Keep(r) == \A f \in pats : StrContains(f[2], r[f[1]])
  IN [raised |-> \E f \in pats : ~RegexCompiles(f[2]),
      df |-> Frame(df.columns, SelectSeq(df.rows, Keep))]

---------------------------------------------------------------------------
(* The two branches of the Search handler and the display section.  Each   *)
(* gives what the branch leaves behind; exception names the exception that *)
(* ended the script, "none" when the branch ran to its end.                *)

Msg(level, text) == [level |-> level, text |-> text]

Outcome(jd, f, assigned, stored, messages, exception, reads, writes) ==
  [job_data |-> jd, file |-> f, assigned |-> assigned, stored |-> stored,
   messages |-> messages, exception |-> exception,
   csvReads |-> reads, csvWrites |-> writes]

(* if jobs: ... (the live branch) *)
LiveBranch(rows, jd, f, io) ==
  LET df0 == DataFrame(rows)
      df == CleanLive(drop_duplicates(df0, df0.columns))
  IN IF ~((TextColumns \cup {"Posted"}) \subseteq df0.columns)
     THEN Outcome(jd, f, FALSE, NoneDF, <<>>, "KeyError", 0, 0)
     ELSE IF io = "os_error"
     THEN Outcome(df, f, TRUE, df, <<>>, "OSError", 0, 1)
     ELSE Outcome(df, to_csv(df), TRUE, df,
                  <<Msg("success", "Job results saved")>>, "none", 0, 1)

(* else: ... (the fallback branch) *)
FallbackBranch(w, jd, f, io) ==
  IF ~f.exists
  THEN Outcome(jd, f, FALSE, NoneDF,
               <<Msg("warning", "No fallback file found")>>, "none", 0, 0)
  ELSE IF io = "os_error"
  THEN Outcome(jd, f, FALSE, NoneDF, <<>>, "OSError", 1, 0)
  ELSE LET fallback_df == read_csv(f)
           cleaned == drop_duplicates(NormaliseColumns(fallback_df), DedupColumns)
           filtered == ApplyFilters(cleaned, w)
       IN IF ~((TextColumns \cup DedupColumns) \subseteq fallback_df.columns)
          THEN Outcome(jd, f, FALSE, NoneDF, <<>>, "KeyError", 1, 0)
          ELSE IF filtered.raised
          THEN Outcome(jd, f, FALSE, NoneDF, <<>>, "re.error", 1, 0)
          ELSE IF filtered.df.rows # <<>>
          THEN Outcome(filtered.df, f, TRUE, filtered.df,
                       <<Msg("success", "Loaded from fallback")>>, "none", 1, 0)
          ELSE Outcome(jd, f, FALSE, NoneDF,
                       <<Msg("warning", "No matching jobs found in fallback")>>,
                       "none", 1, 0)

(* value_counts() of a column, the rows equal to "Not specified" left out. *)
ValueCounts(df, c) ==
  LET idx == {i \in 1..Len(df.rows) : df.rows[i][c] # Str(NotSpecified)}
  IN {[category |-> v, count |-> Cardinality({i \in idx : df.rows[i][c].v = v})] :
        v \in {df.rows[i][c].v : i \in idx}}

(* The number of categories a bar chart keeps. *)
ChartHead == 10

(* .head(10) of the counts, largest first. *)
HeadCounts(vc) ==
  IF Cardinality(vc) <= ChartHead THEN vc
  ELSE CHOOSE top \in SUBSET vc :
         /\ Cardinality(top) = ChartHead
         /\ \A a \in top, b \in vc \ top : a.count >= b.count

NoCharts == [c \in ChartColumns |-> {}]

(* The display section: it normalises the columns of the session's table   *)
(* in place (df is the object held in st.session_state), and draws the     *)
(* charts from a de-duplicated copy.                                       *)
Display(jd) ==
  IF jd.none
  THEN [job_data |-> jd, charts |-> NoCharts, messages |-> <<>>]
  ELSE IF jd.rows = <<>>
  THEN [job_data |-> jd, charts |-> NoCharts,
        messages |-> <<Msg("success", "Showing jobs"),
                       Msg("warning", "No data available after filtering")>>]
  ELSE LET n == NormaliseColumns(jd)
           d == drop_duplicates(n, DedupColumns)
       IN [job_data |-> n,
           charts |-> [c \in ChartColumns |->
                         IF c \in {"Location", "Job Title", "Company"}
                         THEN HeadCounts(ValueCounts(d, c)) ELSE ValueCounts(d, c)],
           messages |-> <<Msg("success", "Showing jobs")>>]

---------------------------------------------------------------------------
(* The state. *)

VARIABLES
  job_data,           \* st.session_state["job_data"]
  file,               \* fallback_jobs.csv
  job_title, location, industry, experience_filter, job_type_filter,
  clicked,            \* the last run was a Search click
  response,           \* what the GET of the last run met
  jobs,               \* what fetch_jobs returned in the last run
  assigned,           \* the last run assigned st.session_state["job_data"]
  stored,             \* the value it assigned
  messages,           \* the messages the last run showed
  exception,          \* the exception that ended the last run, or "none"
  charts,             \* the charts the last run drew
  requests,           \* the HTTP requests the last run sent
  csvReads, csvWrites \* the read_csv and to_csv calls the last run made

vars == <<job_data, file, job_title, location, industry, experience_filter,
          job_type_filter, clicked, response, jobs, assigned, stored, messages,
          exception, charts, requests, csvReads, csvWrites>>

widgets == Widgets(job_title, location, industry, experience_filter, job_type_filter)

NoFetch == [none |-> TRUE, rows |-> <<>>, errors |-> <<>>, requests |-> <<>>]

Init ==
  /\ job_data = NoneDF
  /\ file = NoFile
  /\ job_title = DefaultWidgets.job_title
  /\ location = DefaultWidgets.location
  /\ industry = DefaultWidgets.industry
  /\ experience_filter = DefaultWidgets.experience_filter
  /\ job_type_filter = DefaultWidgets.job_type_filter
  /\ clicked = FALSE
  /\ response = NoResponse
  /\ jobs = NoFetch
  /\ assigned = FALSE
  /\ stored = NoneDF
  /\ messages = <<>>
  /\ exception = "none"
  /\ charts = NoCharts
  /\ requests = <<>>
  /\ csvReads = 0
  /\ csvWrites = 0

(* A run of the script with the button clicked: the Search handler, then   *)
(* the display section unless an exception ended the script.  The value is *)
(* the state the run leaves.                                               *)
Run(w, resp, io, jd, f) ==
  LET fetched == fetch_jobs(w.job_title, w.location, resp)
      o == IF ~fetched.none /\ fetched.rows # <<>>
           THEN LiveBranch(fetched.rows, jd, f, io)
           ELSE FallbackBranch(w, jd, f, io)
      shown == IF o.exception = "none" THEN Display(o.job_data)
               ELSE [job_data |-> o.job_data, charts |-> NoCharts, messages |-> <<>>]
  IN [job_data |-> shown.job_data, file |-> o.file, widgets |-> w,
      clicked |-> TRUE, response |-> resp,
      jobs |-> fetched, assigned |-> o.assigned, stored |-> o.stored,
      messages |-> fetched.errors \o o.messages \o shown.messages,
      exception |-> o.exception, charts |-> shown.charts,
      requests |-> fetched.requests, csvReads |-> o.csvReads,
      csvWrites |-> o.csvWrites]

(* A run of the script without a click: the handler is skipped, the        *)
(* display section runs.                                                   *)
Show(w, jd, f) ==
  LET shown == Display(jd)
  IN [job_data |-> shown.job_data, file |-> f, widgets |-> w,
      clicked |-> FALSE, response |-> NoResponse,
      jobs |-> NoFetch, assigned |-> FALSE, stored |-> NoneDF,
      messages |-> shown.messages, exception |-> "none", charts |-> shown.charts,
      requests |-> <<>>, csvReads |-> 0, csvWrites |-> 0]

Leave(r) ==
  /\ job_data' = r.job_data
  /\ file' = r.file
  /\ job_title' = r.widgets.job_title
  /\ location' = r.widgets.location
  /\ industry' = r.widgets.industry
  /\ experience_filter' = r.widgets.experience_filter
  /\ job_type_filter' = r.widgets.job_type_filter
  /\ clicked' = r.clicked
  /\ response' = r.response
  /\ jobs' = r.jobs
  /\ assigned' = r.assigned
  /\ stored' = r.stored
  /\ messages' = r.messages
  /\ exception' = r.exception
  /\ charts' = r.charts
  /\ requests' = r.requests
  /\ csvReads' = r.csvReads
  /\ csvWrites' = r.csvWrites

(* A run of the script in which the Search button was clicked; the        *)
(* widgets hold the values of the run before.                              *)
Search(resp, io) ==
  \E r \in {Run(widgets, resp, io, job_data, file)} : Leave(r)

(* A run of the script without a click: a widget was changed, or the page  *)
(* was shown again.                                                        *)
Rerun(w) ==
  \E r \in {Show(w, job_data, file)} : Leave(r)

Next ==
  \/ \E resp \in Responses, io \in IoOutcomes : Search(resp, io)
  \/ \E w \in WidgetValues : Rerun(w)

Spec == Init /\ [][Next]_vars

---------------------------------------------------------------------------
(* The properties. *)

(* The last run was a click whose fetch returned a list with a job in it. *)
LiveClick == clicked /\ ~jobs.none /\ jobs.rows # <<>>

(* A row passes the filters selected on the page: each text entered occurs *)
(* in its column, whatever the case, and each selection other than All     *)
(* occurs in its column.                                                   *)
PassesFilters(row, w) ==
  LET In(t, c) == row[c].k = "str" /\ Occurs(LowerStr(t), LowerStr(row[c].v))
  IN /\ w.job_title # <<>> => In(w.job_title, "Job Title")
     /\ w.location # <<>> => In(w.location, "Location")
     /\ w.industry # <<>> => In(w.industry, "Industry")
     /\ w.experience_filter # All => In(w.experience_filter, "Experience")
     /\ w.job_type_filter # All => In(w.job_type_filter, "Job Type")

(* The rows of the fallback file, cleaned, that pass the filters. *)
PassingRows(f, w) ==
  LET Keep(r) == PassesFilters(r, w)
  IN SelectSeq(drop_duplicates(NormaliseColumns(read_csv(f)), DedupColumns).rows, Keep)

(* C1: after a click whose fetch failed while the fallback file exists,    *)
(* the file was read, and if one of its rows passes the filters job_data   *)
(* was set to exactly the rows that pass.                                  *)
C1_FallbackLoaded ==
  (clicked /\ response.status = "error" /\ jobs.none /\ file.exists) =>
    /\ csvReads = 1
    /\ PassingRows(file, widgets) # <<>> =>
         (assigned /\ stored.rows = PassingRows(file, widgets))

(* C2: after a click whose fetch returned a list, of any length, job_data  *)
(* was overwritten with the cleaned result of that fetch.                  *)
C2_SuccessOverwrites ==
  (clicked /\ ~jobs.none) =>
    /\ assigned
    /\ stored.rows = CleanLive(drop_duplicates(DataFrame(jobs.rows), Columns)).rows

(* C3: no run ends with an unhandled exception, and a fetch that fails     *)
(* returns None after exactly one error message.                           *)
C3_FailuresCaught ==
  /\ exception = "none"
  /\ (clicked /\ jobs.none) => jobs.errors = <<ErrorFetching>>

(* C4: the fallback file changes only in a click whose fetch returned at   *)
(* least one job, and after such a click its rows are those stored in      *)
(* job_data; the fallback branch and a rerun leave it unchanged.           *)
C4_FileFrame ==
  [][/\ file' # file => LiveClick'
     /\ LiveClick' => (file'.exists /\ file' = to_csv(stored'))]_vars

(* C5: a click sends exactly one HTTP request, a run without a click sends *)
(* none and reads nothing; after a failed fetch the only recovery is one   *)
(* read of the fallback file, and nothing is written.                      *)
C5_NoRetry ==
  /\ clicked => Len(requests) = 1
  /\ ~clicked => (requests = <<>> /\ csvReads = 0 /\ csvWrites = 0)
  /\ csvReads \in {0, 1}
  /\ csvReads = 1 => (clicked /\ ~LiveClick)
  /\ (clicked /\ jobs.none) => (csvWrites = 0 /\ (file.exists <=> csvReads = 1))

(* A click whose request failed: one request was sent, the file was read   *)
(* once.                                                                   *)
C5_Witness ==
  clicked /\ response.status = "error" /\ Len(requests) = 1 /\ csvReads = 1

(* C6: job_data starts as None, changes only in a run with a click, never  *)
(* returns to None, and a click whose fetch fails with the fallback file   *)
(* missing or without a passing row leaves it as it was.                   *)
C6_Lifecycle ==
  /\ job_data = NoneDF
  /\ [][/\ ~clicked' => job_data' = job_data
        /\ ~job_data.none => ~job_data'.none
        /\ (clicked' /\ jobs'.none
              /\ (~file.exists \/ PassingRows(file, widgets') = <<>>))
             => job_data' = job_data]_vars

(* The key of the API's job object that a column is read from. *)
KeyMissing(job, c) ==
  CASE c = "Job Title" -> job.job_title.k = "absent"
    [] c = "Company" -> job.employer_name.k = "absent"
    [] c = "Location" -> job.job_city.k = "absent"
    [] c = "Posted" -> job.job_posted_at_datetime_utc.k = "absent"
    [] c = "Industry" -> job.job_industry.k = "absent"
    [] c = "Experience" -> \/ job.job_required_experience.k = "absent"
                           \/ job.experience_level.k = "absent"
    [] c = "Job Type" -> job.job_employment_type.k = "absent"
    [] c = "Apply Link" -> job.job_apply_link.k = "absent"

(* C7: job_data, when not None, has the eight columns in every row; every  *)
(* record fetch_jobs builds has the eight keys, a key the job lacks being  *)
(* Not specified, or # in the apply link.                                  *)
C7_ColumnsExist ==
  /\ ~job_data.none =>
       /\ job_data.columns = Columns
       /\ \A i \in 1..Len(job_data.rows) : DOMAIN job_data.rows[i] = Columns
  /\ (clicked /\ ~jobs.none) =>
       /\ Len(jobs.rows) = Len(response.data)
       /\ \A i \in 1..Len(jobs.rows) :
            /\ DOMAIN jobs.rows[i] = Columns
            /\ \A c \in Columns \ {"Apply Link"} :
                 KeyMissing(response.data[i], c) => jobs.rows[i][c] = Str(NotSpecified)
            /\ KeyMissing(response.data[i], "Apply Link") =>
                 jobs.rows[i]["Apply Link"].v
                   = <<"<a href='">> \o Hash \o <<"' target='_blank'>Apply Here</a>">>

(* A click stored a table built from a job that lacks keys. *)
C7_Witness ==
  /\ LiveClick /\ assigned /\ ~job_data.none
  /\ \E i \in 1..Len(response.data) :
       /\ KeyMissing(response.data[i], "Company")
       /\ KeyMissing(response.data[i], "Apply Link")
       /\ jobs.rows[i]["Company"] = Str(NotSpecified)

(* C8: no chart has a category for the placeholder Not specified, as it is *)
(* written or as the normalisation leaves it.                              *)
C8_PlaceholderNotCounted ==
  \A c \in ChartColumns : \A e \in charts[c] :
    e.category \notin {NotSpecified, Title(Strip(NotSpecified))}

(* C9: every row a click stores passes the filters selected on the page,   *)
(* on the live branch and on the fallback branch.                          *)
C9_StoredRowsFiltered ==
  (clicked /\ assigned) =>
    \A i \in 1..Len(stored.rows) : PassesFilters(stored.rows[i], widgets)

(* C10: the table a click stores has no duplicates: after a live fetch no  *)
(* two rows are equal in every column, after a fallback load no two rows   *)
(* agree on Job Title, Company, Location and Posted.                       *)
C10_NoDuplicates ==
  (clicked /\ assigned) =>
    LET subset == IF LiveClick THEN Columns ELSE DedupColumns
    IN \A i, j \in 1..Len(stored.rows) :
         (\A c \in subset : stored.rows[i][c] = stored.rows[j][c]) => i = j

===========================================================================
